---- MODULE Spec2Model ----
(***************************************************************************)
(* Model of src/utils.py: the extraction of per-specimen records from the  *)
(* text of a pathology report.  A report text is a sequence of one-        *)
(* character strings; every regular expression of the source is an         *)
(* operator that computes the match the Python re module returns           *)
(* (leftmost start, greedy and lazy quantifiers with their backtracking    *)
(* order).  A DataFrame is a sequence of rows; the DataFrame built from an *)
(* empty list has no columns, so reading its "Specimen Identifier" column  *)
(* raises KeyError.                                                        *)
(***************************************************************************)
EXTENDS Integers, Sequences, FiniteSets, TLC

VARIABLES text, pc, specimen_data, raised

vars == <<text, pc, specimen_data, raised>>

----------------------------------------------------------------------------
(* Characters and character classes of the regular expressions.            *)

UpperSeq ==
    <<"A","B","C","D","E","F","G","H","I","J","K","L","M","N","O","P","Q","R",
      "S","T","U","V","W","X","Y","Z">>

LowerSeq ==
    <<"a","b","c","d","e","f","g","h","i","j","k","l","m","n","o","p","q","r",
      "s","t","u","v","w","x","y","z">>

\* chr(65), chr(66), ..., chr(95): the capital letters, then [ \ ] ^ _
ChrFrom65 ==
    UpperSeq \o <<"[","\\","]","^","_">>

Upper == {UpperSeq[i] : i \in 1..26}

Lower == {LowerSeq[i] : i \in 1..26}

Letter == Upper \cup Lower

Digit == {"0","1","2","3","4","5","6","7","8","9"}

Whitespace == {" ", "\n", "\t"}

NL == "\n"

\* the class [\.\):]
Punct == {".", ")", ":"}

LowerOf == [c \in Upper |-> LowerSeq[CHOOSE i \in 1..26 : UpperSeq[i] = c]]

\* case folding of re.IGNORECASE
Fold(c) == IF c \in Upper THEN LowerOf[c] ELSE c

\* chr(n) for the n the source passes (64 + index)
Chr(n) == ChrFrom65[n - 64]

\* str(n) for a positive int, as a sequence of characters
DigitSeq == <<"0","1","2","3","4","5","6","7","8","9">>

RECURSIVE StrOfInt(_)
StrOfInt(n) ==
    IF n < 10 THEN <<DigitSeq[n + 1]>>
    ELSE StrOfInt(n \div 10) \o <<DigitSeq[(n % 10) + 1]>>

----------------------------------------------------------------------------
(* String helpers: str.strip, str.split("\n"), str.find, literal match.    *)

\* the least and the greatest element of a non-empty set of integers
Least(S) == CHOOSE x \in S : \A y \in S : x <= y

Greatest(S) == CHOOSE x \in S : \A y \in S : y <= x

\* the same, with a default for the empty set
LeastOr(S, d) == IF S = {} THEN d ELSE Least(S)

GreatestOr(S, d) == IF S = {} THEN d ELSE Greatest(S)

\* the set of the elements of a sequence
Range(s) == {s[k] : k \in 1..Len(s)}

\* first index >= i whose character is not whitespace, Len(s)+1 if none
SkipWs(s, i) ==
    LeastOr({k \in i..Len(s) : s[k] \notin Whitespace}, Len(s) + 1)

\* last index <= i whose character is not whitespace, 0 if none
SkipWsBack(s, i) ==
    GreatestOr({k \in 1..i : s[k] \notin Whitespace}, 0)

\* str.strip()
Strip(s) == SubSeq(s, SkipWs(s, 1), SkipWsBack(s, Len(s)))

\* first index >= i holding a newline, Len(s)+1 if none
EndOfLine(s, i) ==
    LeastOr({k \in i..Len(s) : s[k] = NL}, Len(s) + 1)

\* str.split("\n")
RECURSIVE SplitLines(_)
SplitLines(s) ==
    LET e == EndOfLine(s, 1)
    IN  IF e > Len(s) THEN <<s>>
        ELSE <<SubSeq(s, 1, e - 1)>> \o SplitLines(SubSeq(s, e + 1, Len(s)))

\* the literal lit stands at index i of s
MatchAt(s, i, lit) ==
    /\ i + Len(lit) - 1 <= Len(s)
    /\ \A k \in 1..Len(lit) : s[i + k - 1] = lit[k]

\* the literal lit stands at index i of s, under re.IGNORECASE
MatchAtCI(s, i, lit) ==
    /\ i + Len(lit) - 1 <= Len(s)
    /\ \A k \in 1..Len(lit) : Fold(s[i + k - 1]) = Fold(lit[k])

\* str.find from index i: the first index of lit in s, 0 if absent
Find(s, lit, i) ==
    LeastOr({k \in i..Len(s) : MatchAt(s, k, lit)}, 0)

\* first index >= i where lit stands under re.IGNORECASE, 0 if none
FindCI(s, lit, i) ==
    LeastOr({k \in i..Len(s) : MatchAtCI(s, k, lit)}, 0)

----------------------------------------------------------------------------
(* Section headers the source searches for.                                *)

SPECIMEN_SUBMITTED ==
    <<"S","P","E","C","I","M","E","N"," ","S","U","B","M","I","T","T","E","D",
      ":">>

DIAGNOSIS_HDR ==
    <<"D","I","A","G","N","O","S","I","S",":">>

MICROSCOPIC_DESCRIPTION ==
    <<"M","I","C","R","O","S","C","O","P","I","C"," ","D","E","S","C","R","I",
      "P","T","I","O","N",":">>

CLINICAL_IMPRESSION ==
    <<"C","L","I","N","I","C","A","L"," ","I","M","P","R","E","S","S","I","O",
      "N",":">>

LESION ==
    <<"L","e","s","i","o","n"," ">>

----------------------------------------------------------------------------
(* extract_accession_and_specimens_df                                      *)

\* least e >= i with a blank line ("\n\n") at e, Len(s)+1 (\Z) if none
UntilBlankOrEnd(s, i) ==
    LeastOr({k \in i..(Len(s) - 1) : s[k] = NL /\ s[k + 1] = NL}, Len(s) + 1)

\* re.search(r"SPECIMEN SUBMITTED:\s*(.+?)(?:\n\n|\Z)", text, I | S).
\* \s* is greedy and gives one character back when it ran to the end of the
\* text; (.+?) takes one character and grows to the first blank line or \Z.
SpecimenSectionMatch(t) ==
    LET p == FindCI(t, SPECIMEN_SUBMITTED, 1)
        q == p + Len(SPECIMEN_SUBMITTED)
        w == SkipWs(t, q)
        s == IF w <= Len(t) THEN w ELSE Len(t)
        e == UntilBlankOrEnd(t, s + 1)
    IN  IF p = 0 \/ q > Len(t)
        THEN [found |-> FALSE, body |-> <<>>]
        ELSE [found |-> TRUE, body |-> SubSeq(t, s, e - 1)]

\* greatest index in lo..Len(s) whose character is not a newline, 0 if none
LastNonNewline(s, lo) ==
    GreatestOr({k \in lo..Len(s) : s[k] # NL}, 0)

\* where [^\n]+ starts in a match of ([A-Z])\.\s*([^\n]+) at index i, 0 if
\* there is no match at i: after the greedy \s*, or on a character \s* gives
\* back when it ran to the end of the section
DescriptionStart(sec, i) ==
    IF sec[i] \in Upper /\ i + 1 <= Len(sec) /\ sec[i + 1] = "."
    THEN LET w == SkipWs(sec, i + 2)
         IN  IF w <= Len(sec) THEN w ELSE LastNonNewline(sec, i + 2)
    ELSE 0

\* re.findall(r"([A-Z])\.\s*([^\n]+)", section) from index i on, each match
\* already as (identifier, description.strip())
RECURSIVE SpecimensWithIdentifiers(_, _)
SpecimensWithIdentifiers(sec, i) ==
    LET k == LeastOr({n \in i..Len(sec) : DescriptionStart(sec, n) # 0}, 0)
        j == DescriptionStart(sec, k)
        e == EndOfLine(sec, j)
    IN  IF k = 0 THEN <<>>
        ELSE <<[id |-> <<sec[k]>>, desc |-> Strip(SubSeq(sec, j, e - 1))]>>
             \o SpecimensWithIdentifiers(sec, e)

\* the branch without identifiers: one specimen per line of the section,
\* identifiers chr(64 + index)
SpecimensWithoutIdentifiers(sec) ==
    LET lines == SplitLines(sec)
    IN  [index \in 1..Len(lines) |->
            [id |-> <<Chr(64 + index)>>, desc |-> Strip(lines[index])]]

\* the rows of the DataFrame extract_accession_and_specimens_df returns
extract_accession_and_specimens_df(t) ==
    LET m == SpecimenSectionMatch(t)
        specimen_section == Strip(m.body)
        specimens_with_identifiers ==
            SpecimensWithIdentifiers(specimen_section, 1)
    IN  IF ~m.found THEN <<>>
        ELSE IF specimens_with_identifiers # <<>>
        THEN specimens_with_identifiers
        ELSE SpecimensWithoutIdentifiers(specimen_section)

\* remove_text_after_newline
remove_text_after_newline(cell_text) ==
    Strip(SubSeq(cell_text, 1, EndOfLine(cell_text, 1) - 1))

\* LocAssign with the fault of growing the frame: an identifier that no row
\* carries gets a row of its own
LocAssignOrAppend(rows, id, col, value) ==
    IF \E k \in 1..Len(rows) : rows[k].id = id
    THEN [k \in 1..Len(rows) |->
            IF rows[k].id = id THEN [rows[k] EXCEPT ![col] = value]
            ELSE rows[k]]
    ELSE Append(rows,
                [[id |-> id, desc |-> <<>>, diag |-> <<>>, micro |-> <<>>,
                  clin |-> <<>>] EXCEPT ![col] = value])

\* specimen_data.loc[specimen_data["Specimen Identifier"] == id, col] = value
LocAssign(rows, id, col, value) ==
    [k \in 1..Len(rows) |->
        IF rows[k].id = id THEN [rows[k] EXCEPT ![col] = value] ELSE rows[k]]

\* specimen_data[col] = value
ColAssign(rows, col, value) ==
    [k \in 1..Len(rows) |-> [rows[k] EXCEPT ![col] = value]]

----------------------------------------------------------------------------
(* The diagnosis scan of extract_specimen_details:                         *)
(* ([A-Z])[\.\):]?\s*(.+?)\n\s*--\s*(.+?)(?=\n[A-Z][\.\):]|\n\n|$), I | S  *)

\* "\n\s*--\s*(.+?)" can match with its newline at j: the whitespace after
\* the newline is followed by "--" and at least one character follows that
DashLineAt(t, j) ==
    /\ j <= Len(t)
    /\ t[j] = NL
    /\ LET d == SkipWs(t, j + 1)
       IN  MatchAt(t, d, <<"-", "-">>) /\ d + 2 <= Len(t)

\* least j >= i with DashLineAt(t, j), 0 if none
FirstDashLine(t, i) ==
    LeastOr({j \in i..Len(t) : DashLineAt(t, j)}, 0)

\* (.+?) starts at s, s - 1, ..., lo in that order (the backtracking of the
\* greedy \s* before it); the first start that reaches a dash line decides
RECURSIVE DashLineFrom(_, _, _)
DashLineFrom(t, s, lo) ==
    IF s < lo THEN 0
    ELSE LET j == FirstDashLine(t, s + 1)
         IN  IF j # 0 THEN j ELSE DashLineFrom(t, s - 1, lo)

\* the newline that ends group 2 of a match starting at the letter t[i]:
\* first with the optional punctuation taken, then without it
DiagnosisDashLine(t, i) ==
    LET hasP == i + 1 <= Len(t) /\ t[i + 1] \in Punct
        a    == IF hasP THEN i + 2 ELSE i + 1
        j1   == DashLineFrom(t, SkipWs(t, a), a)
    IN  IF j1 # 0 \/ ~hasP THEN j1
        ELSE DashLineFrom(t, i + 1, i + 1)

\* the lookahead (?=\n[A-Z][\.\):]|\n\n|$) holds at e
DiagnosisEnd(t, e) ==
    \/ e = Len(t) + 1
    \/ e = Len(t) /\ t[e] = NL
    \/ /\ e + 1 <= Len(t)
       /\ t[e] = NL
       /\ \/ t[e + 1] = NL
          \/ e + 2 <= Len(t) /\ t[e + 1] \in Letter /\ t[e + 2] \in Punct

FirstDiagnosisEnd(t, e) ==
    Least({k \in e..(Len(t) + 1) : DiagnosisEnd(t, k)})

\* re.findall of the diagnosis pattern from index i on: each match as
\* (match[0], match[2].strip())
RECURSIVE diagnosis_matches(_, _)
diagnosis_matches(t, i) ==
    LET k == LeastOr({n \in i..Len(t) : t[n] \in Letter}, 0)
        j == DiagnosisDashLine(t, k)
        d == SkipWs(t, j + 1)
        w == SkipWs(t, d + 2)
        s == IF w <= Len(t) THEN w ELSE Len(t)
        e == FirstDiagnosisEnd(t, s + 1)
    IN  IF k = 0 THEN <<>>
        ELSE IF FirstDashLine(t, k + 2) = 0 THEN <<>>  \* no start can match
        ELSE <<[id |-> <<t[k]>>, text |-> Strip(SubSeq(t, s, e - 1))]>>
             \o diagnosis_matches(t, e)

----------------------------------------------------------------------------
(* Sections bounded by the next header line: MICROSCOPIC DESCRIPTION and   *)
(* CLINICAL IMPRESSION, r"<HEADER>:\s*(.+?)(?=\n[A-Z ]+:|$)", I | S        *)

\* first index >= i whose character is not in [A-Z ] under IGNORECASE
SkipHeaderChars(t, i) ==
    LeastOr({k \in i..Len(t) : t[k] \notin Letter \cup {" "}}, Len(t) + 1)

\* the lookahead (?=\n[A-Z ]+:|$) holds at e
SectionEnd(t, e) ==
    \/ e = Len(t) + 1
    \/ e = Len(t) /\ t[e] = NL
    \/ /\ e + 1 <= Len(t)
       /\ t[e] = NL
       /\ LET r == SkipHeaderChars(t, e + 1)
          IN  r > e + 1 /\ r <= Len(t) /\ t[r] = ":"

FirstSectionEnd(t, e) ==
    Least({k \in e..(Len(t) + 1) : SectionEnd(t, k)})

\* re.search of the section pattern for header hdr: group(1)
SectionMatch(t, hdr) ==
    LET p == FindCI(t, hdr, 1)
        q == p + Len(hdr)
        w == SkipWs(t, q)
        s == IF w <= Len(t) THEN w ELSE Len(t)
        e == FirstSectionEnd(t, s + 1)
    IN  IF p = 0 \/ q > Len(t)
        THEN [found |-> FALSE, body |-> <<>>]
        ELSE [found |-> TRUE, body |-> SubSeq(t, s, e - 1)]

----------------------------------------------------------------------------
(* add_microscopic_description                                             *)

\* first index >= i holding "-", 0 if none
FirstDash(s, i) ==
    LeastOr({k \in i..Len(s) : s[k] = "-"}, 0)

\* r"^([A-Z][\.\):])\s*(.*?)\s*-\s*(.+)$" under I | S | M: the "-" of a
\* match that starts at index i, 0 if there is no match at i
RowDash(mt, i) ==
    IF /\ i = 1 \/ mt[i - 1] = NL
       /\ mt[i] \in Letter
       /\ i + 1 <= Len(mt) /\ mt[i + 1] \in Punct
    THEN LET d == FirstDash(mt, i + 2)
         IN  IF d = Len(mt) THEN 0 ELSE d
    ELSE 0

\* re.findall of that pattern from index i on, each match as
\* (match[0][0], match[2].strip()).  Under DOTALL the greedy (.+) runs to
\* the end of the text, where $ holds.
RECURSIVE micro_desc_matches(_, _)
micro_desc_matches(mt, i) ==
    LET k == LeastOr({n \in i..Len(mt) : RowDash(mt, n) # 0}, 0)
        d == RowDash(mt, k)
    IN  IF k = 0 THEN <<>>
        ELSE <<[id |-> <<mt[k]>>,
                text |-> Strip(SubSeq(mt, d + 1, Len(mt)))]>>
             \o micro_desc_matches(mt, Len(mt) + 1)

\* the assignments of the loop over the matches, in order
RECURSIVE ApplySpans(_, _, _)
ApplySpans(rows, col, spans) ==
    IF spans = <<>> THEN rows
    ELSE ApplySpans(LocAssign(rows, Head(spans).id, col, Head(spans).text),
                    col, Tail(spans))

----------------------------------------------------------------------------
(* extract_clinical_impression                                             *)

\* the lookahead (?=\n\n|DIAGNOSIS:) holds at e
MappingSectionEnd(t, e) ==
    \/ e + 1 <= Len(t) /\ t[e] = NL /\ t[e + 1] = NL
    \/ MatchAtCI(t, e, DIAGNOSIS_HDR)

\* least e >= i with MappingSectionEnd(t, e), 0 if none
FirstMappingSectionEnd(t, i) ==
    LeastOr({k \in i..Len(t) : MappingSectionEnd(t, k)}, 0)

\* (.+?) starts at s, s - 1, ..., lo in that order (the backtracking of the
\* greedy \s*); the first start from which the lookahead is reached decides
RECURSIVE MappingSectionFrom(_, _, _)
MappingSectionFrom(t, s, lo) ==
    IF s < lo THEN [found |-> FALSE, body |-> <<>>]
    ELSE LET e == FirstMappingSectionEnd(t, s + 1)
         IN  IF s <= Len(t) /\ e # 0
             THEN [found |-> TRUE, body |-> SubSeq(t, s, e - 1)]
             ELSE MappingSectionFrom(t, s - 1, lo)

\* re.search(r"SPECIMEN SUBMITTED:\s*(.+?)(?=\n\n|DIAGNOSIS:)", text, I | S)
specimen_submitted_section(t) ==
    LET p == FindCI(t, SPECIMEN_SUBMITTED, 1)
        q == p + Len(SPECIMEN_SUBMITTED)
    IN  IF p = 0 THEN [found |-> FALSE, body |-> <<>>]
        ELSE MappingSectionFrom(t, SkipWs(t, q), q)

\* r"([A-Z])[\.\):]?\s*(.+)": where (.+) starts in a match that starts at
\* index i, 0 if there is no match at i.  (.+) needs a character that is not
\* a newline: the greedy \s* gives characters back until it has one, and
\* failing that the optional punctuation is left to (.+).
MappingTextStart(g, i) ==
    IF g[i] \in Upper
    THEN LET hasP == i + 1 <= Len(g) /\ g[i + 1] \in Punct
             a    == IF hasP THEN i + 2 ELSE i + 1
             w    == SkipWs(g, a)
             j    == IF w <= Len(g) THEN w ELSE LastNonNewline(g, a)
         IN  IF j = 0 /\ hasP THEN i + 1 ELSE j
    ELSE 0

\* re.findall of that pattern on the section from index i on: the
\* identifiers (group 1) of the matches
RECURSIVE MappingIdentifiers(_, _)
MappingIdentifiers(g, i) ==
    LET k == LeastOr({n \in i..Len(g) : MappingTextStart(g, n) # 0}, 0)
    IN  IF k = 0 THEN <<>>
        ELSE <<<<g[k]>>>>
             \o MappingIdentifiers(g, EndOfLine(g, MappingTextStart(g, k)))

\* d[key] = value on a dict kept as a sequence of <<key, value>> in
\* insertion order
DictSet(d, key, value) ==
    IF \E k \in 1..Len(d) : d[k][1] = key
    THEN [k \in 1..Len(d) |-> IF d[k][1] = key THEN <<key, value>> ELSE d[k]]
    ELSE Append(d, <<key, value>>)

DictHas(d, key) == \E k \in 1..Len(d) : d[k][1] = key

DictGet(d, key) == d[CHOOSE k \in 1..Len(d) : d[k][1] = key][2]

\* the loop that fills specimen_mapping: str(idx) -> letter, letter -> letter
RECURSIVE BuildMapping(_, _, _)
BuildMapping(d, ids, idx) ==
    IF idx > Len(ids) THEN d
    ELSE BuildMapping(
            DictSet(DictSet(d, StrOfInt(idx), ids[idx]), ids[idx], ids[idx]),
            ids, idx + 1)

specimen_mapping(t) ==
    LET m == specimen_submitted_section(t)
    IN  IF m.found THEN BuildMapping(<<>>, MappingIdentifiers(m.body, 1), 1)
        ELSE <<>>

\* {specimen: "" for specimen in specimen_mapping.values()}
RECURSIVE EmptyImpressions(_, _, _)
EmptyImpressions(d, mapping, k) ==
    IF k > Len(mapping) THEN d
    ELSE EmptyImpressions(DictSet(d, mapping[k][2], <<>>), mapping, k + 1)

\* first index >= i that does not hold a digit
SkipDigits(s, i) ==
    LeastOr({k \in i..Len(s) : s[k] \notin Digit}, Len(s) + 1)

\* length of the match of ([A-Z]\)|[A-Z]:|#\d+-|Lesion [A-Z]) at index i
\* under IGNORECASE, 0 if there is none
TokenLen(s, i) ==
    IF i + 1 <= Len(s) /\ s[i] \in Letter /\ s[i + 1] \in {")", ":"}
    THEN 2
    ELSE IF /\ s[i] = "#"
            /\ SkipDigits(s, i + 1) > i + 1
            /\ SkipDigits(s, i + 1) <= Len(s)
            /\ s[SkipDigits(s, i + 1)] = "-"
    THEN SkipDigits(s, i + 1) - i + 1
    ELSE IF /\ MatchAtCI(s, i, LESION)
            /\ i + Len(LESION) <= Len(s)
            /\ s[i + Len(LESION)] \in Letter
    THEN Len(LESION) + 1
    ELSE 0

\* re.findall of the identifier pattern from index i on
RECURSIVE identifiers(_, _)
identifiers(s, i) ==
    LET k == LeastOr({n \in i..Len(s) : TokenLen(s, n) # 0}, 0)
    IN  IF k = 0 THEN <<>>
        ELSE <<SubSeq(s, k, k + TokenLen(s, k) - 1)>>
             \o identifiers(s, k + TokenLen(s, k))

\* re.sub(r"[\)\-:#]", "", identifier)
RemoveMarks(s) == SelectSeq(s, LAMBDA c : c \notin {")", "-", ":", "#"})

\* str.replace(lit, "")
RECURSIVE RemoveAll(_, _)
RemoveAll(s, lit) ==
    IF s = <<>> THEN <<>>
    ELSE IF MatchAt(s, 1, lit)
    THEN RemoveAll(SubSeq(s, Len(lit) + 1, Len(s)), lit)
    ELSE <<Head(s)>> \o RemoveAll(Tail(s), lit)

clean_identifier(identifier) ==
    Strip(RemoveAll(RemoveMarks(identifier), LESION))

\* the text the loop cuts out for identifiers[idx]: from the end of the first
\* occurrence of the identifier to the first occurrence of the next one
impression_text(ct, ids, idx) ==
    LET start_pos == Find(ct, ids[idx], 1)
        end_pos   == IF idx + 1 <= Len(ids) THEN Find(ct, ids[idx + 1], 1)
                     ELSE Len(ct) + 1
    IN  Strip(SubSeq(ct, start_pos + Len(ids[idx]), end_pos - 1))

\* the loop over the identifiers: impressions[...] += impression_text + " "
RECURSIVE AddImpressions(_, _, _, _, _)
AddImpressions(imp, mapping, ct, ids, idx) ==
    IF idx > Len(ids) THEN imp
    ELSE LET c == clean_identifier(ids[idx])
             target == DictGet(mapping, c)
         IN  AddImpressions(
                IF DictHas(mapping, c)
                THEN DictSet(imp, target,
                             DictGet(imp, target)
                             \o impression_text(ct, ids, idx) \o <<" ">>)
                ELSE imp,
                mapping, ct, ids, idx + 1)

\* the dict extract_clinical_impression returns, as <<identifier, text>>
\* pairs in insertion order
extract_clinical_impression(t) ==
    LET mapping == specimen_mapping(t)
        empty   == EmptyImpressions(<<>>, mapping, 1)
        m       == SectionMatch(t, CLINICAL_IMPRESSION)
        ct      == Strip(m.body)
        ids     == identifiers(ct, 1)
        filled  == IF ~m.found THEN empty
                   ELSE IF ids # <<>>
                   THEN AddImpressions(empty, mapping, ct, ids, 1)
                   ELSE [k \in 1..Len(empty) |-> <<empty[k][1], ct>>]
    IN  [k \in 1..Len(filled) |-> <<filled[k][1], Strip(filled[k][2])>>]

\* re.match(r"^[A-Z][\)\.:]|#[0-9]+$", specimen_id)
valid_identifier(id) ==
    \/ Len(id) >= 2 /\ id[1] \in Upper /\ id[2] \in Punct
    \/ /\ Len(id) >= 2 /\ id[1] = "#"
       /\ LET r == SkipDigits(id, 2)
          IN  r > 2 /\ (r = Len(id) + 1 \/ (r = Len(id) /\ id[r] = NL))

\* the loop over clinical_impressions.items()
RECURSIVE ApplyImpressions(_, _, _)
ApplyImpressions(rows, imp, k) ==
    IF k > Len(imp) THEN rows
    ELSE ApplyImpressions(
            IF ~valid_identifier(imp[k][1])
            THEN ColAssign(rows, "clin", imp[k][2])
            ELSE LocAssign(rows, imp[k][1], "clin", imp[k][2]),
            imp, k + 1)

----------------------------------------------------------------------------
(* The report texts: up to MaxFragments of the fragments below, in any     *)
(* order.                                                                  *)

MaxFragments == 3

\* lettered specimens A and B
SpecLettered ==
    <<"S","P","E","C","I","M","E","N"," ","S","U","B","M","I","T","T","E","D",
      ":"," ","A","."," ","a","r","m","\n","B","."," ","l","e","g","\n","\n">>

\* one lettered specimen
SpecSingle ==
    <<"S","P","E","C","I","M","E","N"," ","S","U","B","M","I","T","T","E","D",
      ":"," ","A","."," ","a","r","m","\n","\n">>

\* one unlettered specimen; the next line belongs to what follows
SpecPlain ==
    <<"S","P","E","C","I","M","E","N"," ","S","U","B","M","I","T","T","E","D",
      ":","\n","s","k","i","n","\n">>

\* a capital letter and a period in the middle of a line
SpecMidLine ==
    <<"S","P","E","C","I","M","E","N"," ","S","U","B","M","I","T","T","E","D",
      ":"," ","A","."," ","a","r","m","\n","o","f"," ","L","."," ","l","e",
      "g","\n","\n">>

\* the same letter on two lines
SpecRepeated ==
    <<"S","P","E","C","I","M","E","N"," ","S","U","B","M","I","T","T","E","D",
      ":"," ","A","."," ","a","r","m","\n","A","."," ","l","e","g","\n","\n">>

\* two identifier lines, each followed by a -- line
DiagnosisLines ==
    <<"D","I","A","G","N","O","S","I","S",":","\n","A","."," ","a","r","m",
      "\n","-","-"," ","B","C","C","\n","d","e","e","p","\n","B","."," ","l",
      "e","g","\n","-","-"," ","S","C","C","\n","\n">>

\* one row per specimen
MicroRows ==
    <<"M","I","C","R","O","S","C","O","P","I","C"," ","D","E","S","C","R","I",
      "P","T","I","O","N",":"," ","A","."," ","a","r","m"," ","-"," ","n","e",
      "v","u","s","\n","B","."," ","l","e","g"," ","-"," ","m","o","l","e",
      "\n","\n">>

\* no rows
MicroPlain ==
    <<"M","I","C","R","O","S","C","O","P","I","C"," ","D","E","S","C","R","I",
      "P","T","I","O","N",":"," ","n","e","s","t","s","\n","\n">>

\* one tagged span per specimen
ClinTagged ==
    <<"C","L","I","N","I","C","A","L"," ","I","M","P","R","E","S","S","I","O",
      "N",":"," ","A",")"," ","B","e","n","i","g","n","."," ","B",")"," ","M",
      "a","l","i","g","n",".","\n","\n">>

\* no identifier tokens
ClinPlain ==
    <<"C","L","I","N","I","C","A","L"," ","I","M","P","R","E","S","S","I","O",
      "N",":"," ","N","e","v","u","s",".","\n","\n">>

\* two spans tagged for specimen A
ClinRepeated ==
    <<"C","L","I","N","I","C","A","L"," ","I","M","P","R","E","S","S","I","O",
      "N",":"," ","A",")"," ","B","e","n","i","g","n","."," ","A",")"," ","M",
      "a","l","i","g","n",".","\n","\n">>

\* a blank line after a line that ended with a newline
BlankLine ==
    <<"\n">>

Fragments ==
    {SpecLettered,
     SpecSingle,
     SpecPlain,
     SpecMidLine,
     SpecRepeated,
     DiagnosisLines,
     MicroRows,
     MicroPlain,
     ClinTagged,
     ClinPlain,
     ClinRepeated,
     BlankLine}

RECURSIVE Concat(_)
Concat(fs) == IF fs = <<>> THEN <<>> ELSE Head(fs) \o Concat(Tail(fs))

Texts ==
    {Concat(fs) : fs \in UNION {[1..n -> Fragments] : n \in 0..MaxFragments}}

----------------------------------------------------------------------------
(* extract_specimen_details, one action per block of the function.  pc is  *)
(* the block to run next; "raised" is the state after a KeyError left the  *)
(* function.                                                               *)

\* a DataFrame built from an empty list has no "Specimen Identifier" column
NoIdentifierColumn(rows) == rows = <<>>

Init ==
    /\ text \in Texts
    /\ pc = "start"
    /\ specimen_data = <<>>
    /\ raised = FALSE

\* specimen_data = extract_accession_and_specimens_df(text), then the three
\* columns initialised to ""
ExtractSpecimens ==
    /\ pc = "start"
    /\ specimen_data' =
         LET sp == extract_accession_and_specimens_df(text)
         IN  [k \in 1..Len(sp) |->
                [id |-> sp[k].id, desc |-> sp[k].desc,
                 diag |-> <<>>, micro |-> <<>>, clin |-> <<>>]]
    /\ pc' = "diagnosis"
    /\ UNCHANGED <<text, raised>>

\* the loop over diagnosis_matches
ExtractDiagnosis ==
    /\ pc = "diagnosis"
    /\ LET matches == diagnosis_matches(text, 1)
       IN  IF matches # <<>> /\ NoIdentifierColumn(specimen_data)
           THEN /\ raised' = TRUE
                /\ pc' = "raised"
                /\ UNCHANGED specimen_data
           ELSE /\ specimen_data' = ApplySpans(specimen_data, "diag", matches)
                /\ pc' = "micro"
                /\ UNCHANGED raised
    /\ UNCHANGED text

\* specimen_data = add_microscopic_description(text, specimen_data)
AddMicroscopicDescription ==
    /\ pc = "micro"
    /\ LET m       == SectionMatch(text, MICROSCOPIC_DESCRIPTION)
           mt      == Strip(m.body)
           matches == micro_desc_matches(mt, 1)
       IN  IF ~m.found
           THEN /\ pc' = "clinical"
                /\ UNCHANGED <<specimen_data, raised>>
           ELSE IF NoIdentifierColumn(specimen_data)
           THEN /\ raised' = TRUE
                /\ pc' = "raised"
                /\ UNCHANGED specimen_data
           ELSE /\ specimen_data' =
                     IF matches # <<>>
                     THEN ApplySpans(specimen_data, "micro", matches)
                     ELSE ColAssign(specimen_data, "micro", mt)
                /\ pc' = "clinical"
                /\ UNCHANGED raised
    /\ UNCHANGED text

\* clinical_impressions = extract_clinical_impression(text) and the loop
\* over its items
ExtractClinicalImpressions ==
    /\ pc = "clinical"
    /\ LET imp == extract_clinical_impression(text)
       IN  IF /\ NoIdentifierColumn(specimen_data)
              /\ \E k \in 1..Len(imp) : valid_identifier(imp[k][1])
           THEN /\ raised' = TRUE
                /\ pc' = "raised"
                /\ UNCHANGED specimen_data
           ELSE /\ specimen_data' = ApplyImpressions(specimen_data, imp, 1)
                /\ pc' = "clean"
                /\ UNCHANGED raised
    /\ UNCHANGED text

\* remove_text_after_newline applied to the three narrative columns
CleanNewlines ==
    /\ pc = "clean"
    /\ specimen_data' =
         [k \in 1..Len(specimen_data) |->
            [specimen_data[k] EXCEPT
                !.diag  = remove_text_after_newline(@),
                !.micro = remove_text_after_newline(@),
                !.clin  = remove_text_after_newline(@)]]
    /\ pc' = "done"
    /\ UNCHANGED <<text, raised>>

Next ==
    \/ ExtractSpecimens
    \/ ExtractDiagnosis
    \/ AddMicroscopicDescription
    \/ ExtractClinicalImpressions
    \/ CleanNewlines

Spec == Init /\ [][Next]_vars

----------------------------------------------------------------------------
(* What the specification says of a report text, stated on the text.       *)

\* the (identifier, description) pairs of the rows
Pairs(rows) ==
    [k \in 1..Len(rows) |-> [id |-> rows[k].id, desc |-> rows[k].desc]]

\* the stripped bodies of the three located sections
SpecimenBody == Strip(SpecimenSectionMatch(text).body)

MicroBody == Strip(SectionMatch(text, MICROSCOPIC_DESCRIPTION).body)

ClinBody == Strip(SectionMatch(text, CLINICAL_IMPRESSION).body)

\* a line that begins with a capital letter followed by a period
LetterLine(l) == Len(l) >= 2 /\ l[1] \in Upper /\ l[2] = "."

\* a section header line: capital letters and spaces, then a colon
HeaderLine(l) ==
    LET r == LeastOr({k \in 1..Len(l) : l[k] \notin Upper \cup {" "}}, 0)
    IN  r > 1 /\ l[r] = ":"

NonBlankLine(l) == Strip(l) # <<>>

\* the lines of a SPECIMEN SUBMITTED body up to the next section header
BodyLines(body) ==
    LET ls == SplitLines(body)
        h  == LeastOr({k \in 1..Len(ls) : HeaderLine(ls[k])}, Len(ls) + 1)
    IN  SubSeq(ls, 1, h - 1)

\* line n is an identifier line and line n + 1 begins with "--"
DiagnosisPair(ls, n) ==
    /\ n + 1 <= Len(ls)
    /\ Len(ls[n]) >= 2 /\ ls[n][1] \in Upper
    /\ MatchAt(ls[n + 1], 1, <<"-", "-">>)

\* a microscopic description row: letter, "." or ")", text, dash, description
RowLine(l) ==
    /\ Len(l) >= 2 /\ l[1] \in Upper /\ l[2] \in {".", ")"}
    /\ FirstDash(l, 3) # 0
    /\ Strip(SubSeq(l, FirstDash(l, 3) + 1, Len(l))) # <<>>

RowDescription(l) == Strip(SubSeq(l, FirstDash(l, 3) + 1, Len(l)))

\* the start indexes of the identifier tokens of a clinical impression body
RECURSIVE TokenStarts(_, _)
TokenStarts(s, i) ==
    LET k == LeastOr({n \in i..Len(s) : TokenLen(s, n) # 0}, 0)
    IN  IF k = 0 THEN <<>>
        ELSE <<k>> \o TokenStarts(s, k + TokenLen(s, k))

\* the text tagged by token i: from just after it to the next token, or to
\* the end of the body
TaggedSpan(ct, starts, i) ==
    Strip(SubSeq(ct, starts[i] + TokenLen(ct, starts[i]),
                 IF i < Len(starts) THEN starts[i + 1] - 1 ELSE Len(ct)))

\* token i resolves to row k: by its letter or by its ordinal
ResolvesTo(ct, starts, i, rows, k) ==
    clean_identifier(
        SubSeq(ct, starts[i], starts[i] + TokenLen(ct, starts[i]) - 1))
    \in {rows[k].id, StrOfInt(k)}

\* the tokens of the clinical impression body that resolve to row k
OwnTokens(k) ==
    LET st == TokenStarts(ClinBody, 1)
    IN  {i \in 1..Len(st) : ResolvesTo(ClinBody, st, i, specimen_data, k)}

\* the report lists its specimens one per line, each line with a letter of
\* its own, and the rows are those lines
LetteredReport ==
    /\ SpecimenSectionMatch(text).found
    /\ LET ls == SplitLines(SpecimenBody)
       IN  /\ \A n \in 1..Len(ls) : LetterLine(ls[n])
           /\ \A m, n \in 1..Len(ls) : m # n => ls[m][1] # ls[n][1]
           /\ Pairs(specimen_data) =
                 [n \in 1..Len(ls) |->
                    [id   |-> <<ls[n][1]>>,
                     desc |-> Strip(SubSeq(ls[n], 3, Len(ls[n])))]]

----------------------------------------------------------------------------
(* The claims.                                                             *)

\* C1: extract_specimen_details never raises, and a text without a
\* "SPECIMEN SUBMITTED:" section gives an empty record sequence, whatever
\* other sections the text has.
C1_NeverRaises ==
    /\ ~raised
    /\ pc # "raised"
    /\ (pc = "done" /\ FindCI(text, SPECIMEN_SUBMITTED, 1) = 0
            => specimen_data = <<>>)

\* C2: when the clinical impression body of a lettered report carries
\* identifier tokens, at most one for each specimen, each record's Clinical
\* Impression is the text of the span tagged for that specimen, and a
\* specimen no token resolves to receives nothing.
C2_OwnSpanOnly ==
    /\ pc = "done"
    /\ LetteredReport
    /\ SectionMatch(text, CLINICAL_IMPRESSION).found
    /\ \A k \in 1..Len(specimen_data) : Cardinality(OwnTokens(k)) <= 1
    =>  LET st == TokenStarts(ClinBody, 1)
        IN  st # <<>> =>
              \A k \in 1..Len(specimen_data) :
                 IF OwnTokens(k) = {}
                 THEN specimen_data[k].clin = <<>>
                 ELSE \E i \in OwnTokens(k) :
                         specimen_data[k].clin =
                            remove_text_after_newline(
                                TaggedSpan(ClinBody, st, i))

\* C3: when a report with at least one specimen has a clinical impression
\* (microscopic description) section without identifier tokens (rows), every
\* record's Clinical Impression (Microscopic Description) is the whole
\* section body.
C3_Broadcast ==
    pc = "done" /\ specimen_data # <<>> =>
        /\ (/\ SectionMatch(text, CLINICAL_IMPRESSION).found
            /\ TokenStarts(ClinBody, 1) = <<>>)
              => \A k \in 1..Len(specimen_data) :
                    specimen_data[k].clin = ClinBody
        /\ (/\ SectionMatch(text, MICROSCOPIC_DESCRIPTION).found
            /\ \A l \in Range(SplitLines(MicroBody)) : ~RowLine(l))
              => \A k \in 1..Len(specimen_data) :
                    specimen_data[k].micro = MicroBody

\* C4: when two or more spans of one section resolve to the same specimen,
\* its field holds the text of the last of them only (here for a lettered
\* report with a single specimen).
C4_LastSpanWins ==
    pc = "done" /\ LetteredReport /\ Len(specimen_data) = 1 =>
        \A k \in 1..Len(specimen_data) :
           LET dm   == diagnosis_matches(text, 1)
               dOwn == {i \in 1..Len(dm) : dm[i].id = specimen_data[k].id}
               mm   == micro_desc_matches(MicroBody, 1)
               mOwn == {i \in 1..Len(mm) : mm[i].id = specimen_data[k].id}
               st   == TokenStarts(ClinBody, 1)
           IN  /\ Cardinality(dOwn) >= 2 =>
                     specimen_data[k].diag =
                        remove_text_after_newline(dm[Greatest(dOwn)].text)
               /\ Cardinality(mOwn) >= 2 =>
                     specimen_data[k].micro =
                        remove_text_after_newline(mm[Greatest(mOwn)].text)
               /\ Cardinality(OwnTokens(k)) >= 2 =>
                     specimen_data[k].clin =
                        remove_text_after_newline(
                            TaggedSpan(ClinBody, st, Greatest(OwnTokens(k))))

\* C5: when the SPECIMEN SUBMITTED body has lines that begin with a capital
\* letter and a period, the specimens are exactly those lines, in order:
\* identifier the letter, description the trimmed rest of the line.
C5_OnePerLetterLine ==
    pc # "start" /\ SpecimenSectionMatch(text).found =>
        LET ls == SelectSeq(SplitLines(SpecimenBody), LetterLine)
        IN  ls # <<>> =>
              Pairs(specimen_data) =
                 [n \in 1..Len(ls) |->
                    [id   |-> <<ls[n][1]>>,
                     desc |-> Strip(SubSeq(ls[n], 3, Len(ls[n])))]]

\* C6: when the SPECIMEN SUBMITTED body has no letter-prefixed line, the
\* specimens are its non-blank lines before the next section header, in
\* order, with the identifiers A, B, C, ...
C6_SynthesizedIdentifiers ==
    pc # "start" /\ SpecimenSectionMatch(text).found =>
        LET bl   == BodyLines(SpecimenBody)
            good == SelectSeq(bl, NonBlankLine)
        IN  (\A n \in 1..Len(bl) : ~LetterLine(bl[n])) =>
              Pairs(specimen_data) =
                 [n \in 1..Len(good) |->
                    [id |-> <<UpperSeq[n]>>, desc |-> Strip(good[n])]]

\* C7: the specimen identifiers of a report are pairwise distinct.
C7_DistinctIdentifiers ==
    pc # "start" =>
        \A i, j \in 1..Len(specimen_data) :
           i # j => specimen_data[i].id # specimen_data[j].id

\* C8: at every point of extract_specimen_details after the specimens were
\* read, and in the records it returns, the (identifier, description) pairs
\* are those extract_accession_and_specimens_df gives for the text, in count
\* and order: no span adds, removes, reorders or alters a row.
C8_RowsPreserved ==
    pc # "start" =>
        Pairs(specimen_data) = extract_accession_and_specimens_df(text)

\* C8 witness: records were returned for a report with two or more
\* specimens, a diagnosis span carried an identifier no specimen has, and a
\* Diagnosis and a Clinical Impression were written.
C8_Witness ==
    /\ pc = "done"
    /\ Len(specimen_data) >= 2
    /\ \E i \in 1..Len(diagnosis_matches(text, 1)) :
          \A k \in 1..Len(specimen_data) :
             diagnosis_matches(text, 1)[i].id # specimen_data[k].id
    /\ \E k \in 1..Len(specimen_data) : specimen_data[k].diag # <<>>
    /\ \E k \in 1..Len(specimen_data) : specimen_data[k].clin # <<>>

\* C9: in a lettered report, every identifier line that is followed by a
\* line beginning with "--" gives the record with that letter, as Diagnosis,
\* the rest of the "--" line (the last such pair of a letter deciding).
C9_DiagnosisOfIdentifierLine ==
    pc = "done" /\ LetteredReport =>
        LET ls == SplitLines(text)
        IN  \A k \in 1..Len(specimen_data), n \in 1..Len(ls) :
               (/\ DiagnosisPair(ls, n)
                /\ <<ls[n][1]>> = specimen_data[k].id
                /\ \A m \in (n + 1)..Len(ls) :
                      ~(DiagnosisPair(ls, m) /\ ls[m][1] = ls[n][1]))
               => specimen_data[k].diag =
                     Strip(SubSeq(ls[n + 1], 3, Len(ls[n + 1])))

\* C10: in a lettered report, every row of the MICROSCOPIC DESCRIPTION body
\* gives the record with the row's letter that row's own description (the
\* last row of a letter deciding).
C10_MicroRows ==
    /\ pc = "done"
    /\ LetteredReport
    /\ SectionMatch(text, MICROSCOPIC_DESCRIPTION).found
    =>
        LET ls == SplitLines(MicroBody)
        IN  \A k \in 1..Len(specimen_data), n \in 1..Len(ls) :
               (/\ RowLine(ls[n])
                /\ <<ls[n][1]>> = specimen_data[k].id
                /\ \A m \in (n + 1)..Len(ls) :
                      ~(RowLine(ls[m]) /\ ls[m][1] = ls[n][1]))
               => specimen_data[k].micro = RowDescription(ls[n])

====
